---- MODULE Spec2Model ----
(***************************************************************************)
(* A model of viki-org/lazycache (src/lazycache.go): a stale-while-        *)
(* revalidate cache.  One LazyCache value is shared by caller goroutines   *)
(* (Get, Set, Fetch, SwapCache) and by the background goroutines a stale   *)
(* Get spawns with `go cache.Fetch(id)` / `go cache.groupFetch(id)`.       *)
(*                                                                         *)
(* Every step of the model is one access to shared memory (the fields of   *)
(* the cache, the RWMutex, the clock) or one event of a user fetch         *)
(* function (its invocation, its return).  SwapCache takes no lock in the  *)
(* source, so its two field writes are two separate steps that interleave  *)
(* freely with the unlocked reads of cache.fetcher and cache.groupFetcher  *)
(* in Get, Fetch and groupFetch; a racing read sees the old or the new     *)
(* pointer.  Calling a nil func panics, which ends the Go program.         *)
(***************************************************************************)
EXTENDS Integers, FiniteSets, Bags, TLC

\* ------------------------------------------------------------------ bounds
\* The clock runs from 0 to MaxTime.
MaxTime == 2
\* The ttl given to New / NewGroup.
TTL == 1
\* Fetched and user-set objects are 1..MaxVal; Nil is the nil interface.
MaxVal == 1
\* The calling goroutine makes at most MaxCalls calls of Get, Set and Fetch.
MaxCalls == 3
\* SwapCache is called at most MaxSwaps times.
MaxSwaps == 2
\* At most MaxOps calls are made in all.
MaxOps == 4

Nil == 0
NoFn == 0
NoKey == "-"
Keys == {"A", "B"}
Values == 1..MaxVal
Objects == Values \cup {Nil}
\* the identities of the fetch functions: OldFn is what New / NewGroup were
\* given, NewFn what a SwapCache installs
OldFn == 1
NewFn == 2

\* The goroutines: "c" calls Get, Set and Fetch, one call after the other; "s"
\* calls SwapCache, one call after the other; "r1", "r2", "r3" run the background goroutines that
\* stale Gets start with a `go` statement (each stale Get starts one, so that
\* up to MaxCalls - 1 of them are alive together).
Callers == {"c"}
Swappers == {"s"}
Refreshers == {"r1", "r2", "r3"}
\* the order in which free background goroutines are handed out
Rank == [r \in Refreshers |-> CASE r = "r1" -> 1 [] r = "r2" -> 2 [] r = "r3" -> 3]
Tasks == Callers \cup Swappers \cup Refreshers

EmptyMap == [k \in {} |-> Nil]
\* What a GroupFetcher can return as a non-nil map: a map from any subset of
\* the keys, the empty one included, to non-nil objects.
GroupMaps == UNION {[S -> Values] : S \in SUBSET Keys}

VARIABLES
    fetcher,        \* cache.fetcher: NoFn (nil) or the identity of a Fetcher
    groupFetcher,   \* cache.groupFetcher: NoFn (nil) or a GroupFetcher
    items,          \* cache.items: key -> [present, object, expires]
    lock,           \* cache.lock: [writer |-> task or "none", readers |-> tasks]
    now,            \* time.Now()
    tasks,          \* every goroutine: its position and its locals
    pending,        \* the goroutines a `go` statement created that have not run
                    \* yet: a bag of [id, sel, after, trig]
    crashed,        \* a goroutine panicked (nil func call): the program is gone
    called,         \* the number of calls the calling goroutine has made
    swaps           \* the SwapCache calls so far: n, how many were made; done,
                    \* one of them has returned; ok, each was given at least
                    \* one function

vars == <<fetcher, groupFetcher, items, lock, now, tasks, pending, crashed, called, swaps>>

NoItem == [present |-> FALSE, object |-> Nil, expires |-> 0]
NoRet == [value |-> Nil, found |-> FALSE]

\* A goroutine that is not inside any call.  Fields:
\*   pc, op, id            position, operation ("get","set","fetch","swap","refresh"), key
\*   exists,object,expires Get's locals after the lookup (lines 53, 61, 62)
\*   nowRead               the time.Now() Get compared with expires (line 64)
\*   sel                   what the nil check of lines 56 / 65 chose: "group"|"single"
\*   gout, gmap            the GroupFetcher's outcome and its map
\*   rem, res              keys of the range loop still to visit; res (line 104)
\*   hadF                  cache.fetcher was non-nil when the group call returned
\*   fkey, fout, fobj      the Fetcher's argument, its outcome, its object
\*   setk, setv, ctx       Set's arguments and its caller ("user","fetch","group")
\*   swg                   SwapCache's groupFetcher argument, not yet written
\*   ret                   the call's return values, at pc = "ret"
\*   gcalls, fcalls, wrote fetch function invocations and map writes of this call
\*   spawned               this Get started a background goroutine
\*   gfn, ffn              the GroupFetcher / Fetcher this call invoked (NoFn: none)
\*   trig                  the function the chosen strategy named when the `go`
\*                         statement ran (a background goroutine only)
\*   after                 the call began after SwapCache had returned
\*   setexp                the expiry Set wrote at line 79, until it unlocks
Idle(pc) ==
    [pc |-> pc, op |-> "none", id |-> NoKey,
     exists |-> FALSE, object |-> Nil, expires |-> 0, nowRead |-> 0,
     sel |-> "none",
     gout |-> "none", gmap |-> EmptyMap, rem |-> {}, res |-> Nil,
     hadF |-> FALSE,
     fkey |-> NoKey, fout |-> "none", fobj |-> Nil,
     setk |-> NoKey, setv |-> Nil, ctx |-> "none",
     swg |-> NoFn,
     ret |-> NoRet,
     gcalls |-> 0, fcalls |-> 0, wrote |-> 0,
     spawned |-> FALSE,
     gfn |-> NoFn, ffn |-> NoFn, trig |-> NoFn, after |-> FALSE, setexp |-> 0]

\* ------------------------------------------------------------- pure helpers
\* a variant of After: an item counts as expired from now = expires on
AfterOrAt(t, expires) == t >= expires

\* time.Now().After(expires), line 64
After(t, expires) == t > expires

\* time.Now().Add(cache.ttl), lines 79 and 82
Add(t, ttl) == t + ttl

\* object != nil, lines 71, 92, 111
Found(object) == object # Nil

\* a variant of GroupFailed: every group result sends the call to the fallback
GroupFailedAlways(gout) == TRUE

\* err != nil || objects == nil, line 97
GroupFailed(gout) == gout \in {"err", "nil"}

\* cache.groupFetcher != nil, lines 56 and 65
Strategy(gf) == IF gf # NoFn THEN "group" ELSE "single"

\* the position a goroutine enters groupFetch / Fetch at
Entry(sel) == IF sel = "group" THEN "g_call" ELSE "f_call"

\* the return statement of a call: its results stay visible at "ret"
Returns(me, value) ==
    [me EXCEPT !.pc = "ret", !.ret = [value |-> value, found |-> Found(value)]]

\* New(fetcher, ttl, size) and NewGroup(groupFetcher, fetcher, ttl, size).
\* The constructors do not examine their arguments; the caches considered
\* here are those built with at least one of the two strategies (a cache
\* built with none calls a nil func at its first miss).
Init ==
    /\ \E f \in {NoFn, OldFn}, g \in {NoFn, OldFn} :
          /\ ~(f = NoFn /\ g = NoFn)
          /\ fetcher = f
          /\ groupFetcher = g
    /\ items = [k \in Keys |-> NoItem]
    /\ lock = [writer |-> "none", readers |-> {}]
    /\ now = 0
    /\ tasks = [t \in Tasks |-> IF t \in Refreshers THEN Idle("free") ELSE Idle("idle")]
    /\ pending = EmptyBag
    /\ crashed = FALSE
    /\ called = 0
    /\ swaps = [n |-> 0, done |-> FALSE, ok |-> TRUE]

\* ------------------------------------------------------------------ clock
Tick ==
    /\ ~crashed
    /\ now < MaxTime
    /\ now' = now + 1
    /\ UNCHANGED <<fetcher, groupFetcher, items, lock, tasks, pending, crashed, called, swaps>>

\* a call has returned to its caller; a background goroutine has ended
Return(t) ==
    /\ ~crashed
    /\ tasks[t].pc = "ret"
    /\ tasks' = [tasks EXCEPT ![t] = IF t \in Refreshers THEN Idle("free") ELSE Idle("idle")]
    /\ UNCHANGED <<fetcher, groupFetcher, items, lock, now, pending, crashed, called, swaps>>

\* a SwapCache has returned to its caller (line 48)
Swapped == swaps.done

\* no SwapCache has begun
NoSwap == ~swaps.done /\ \A s \in Swappers : tasks[s].pc = "idle"

\* every SwapCache called so far was given at least one function
SwapConfigured == swaps.ok

\* -------------------------------------------------------------------- Get
\* Get(id), line 52: cache.lock.RLock()
Get(t, k) ==
    /\ ~crashed
    /\ tasks[t].pc = "idle"
    /\ called < MaxCalls
    /\ called + swaps.n < MaxOps
    /\ called' = called + 1
    /\ lock.writer = "none"
    /\ lock' = [lock EXCEPT !.readers = @ \cup {t}]
    /\ tasks' = [tasks EXCEPT ![t] =
           [Idle("get_lookup") EXCEPT !.op = "get", !.id = k, !.after = Swapped]]
    /\ UNCHANGED <<fetcher, groupFetcher, items, now, pending, crashed, swaps>>

\* a variant of GetLookup: a Get that finds no item keeps its read lock while
\* it fetches
GetLookupHold(t) ==
    /\ ~crashed
    /\ tasks[t].pc = "get_lookup"
    /\ LET it == items[tasks[t].id]
       IN tasks' = [tasks EXCEPT ![t] =
              IF it.present
              THEN [@ EXCEPT !.pc = "get_object", !.exists = TRUE,
                             !.expires = it.expires]
              ELSE [@ EXCEPT !.pc = "get_miss", !.exists = FALSE]]
    /\ UNCHANGED <<fetcher, groupFetcher, items, lock, now, pending, crashed, called, swaps>>

\* lines 53-55 and 61: the lookup; no item: RUnlock; an item: the copy of its
\* expires field
GetLookup(t) ==
    /\ ~crashed
    /\ tasks[t].pc = "get_lookup"
    /\ LET it == items[tasks[t].id]
       IN IF it.present
          THEN /\ tasks' = [tasks EXCEPT ![t] =
                      [@ EXCEPT !.pc = "get_object", !.exists = TRUE,
                                !.expires = it.expires]]
               /\ lock' = lock
          ELSE /\ tasks' = [tasks EXCEPT ![t] =
                      [@ EXCEPT !.pc = "get_miss", !.exists = FALSE]]
               /\ lock' = [lock EXCEPT !.readers = @ \ {t}]
    /\ UNCHANGED <<fetcher, groupFetcher, items, now, pending, crashed, called, swaps>>

\* lines 62-63: the copy of the item's object field, RUnlock
GetObject(t) ==
    /\ ~crashed
    /\ tasks[t].pc = "get_object"
    /\ tasks' = [tasks EXCEPT ![t] =
           [@ EXCEPT !.pc = "get_hit", !.object = items[tasks[t].id].object]]
    /\ lock' = [lock EXCEPT !.readers = @ \ {t}]
    /\ UNCHANGED <<fetcher, groupFetcher, items, now, pending, crashed, called, swaps>>

\* lines 56-59: no item; fetch in this goroutine, by the strategy the nil check picks
GetMiss(t) ==
    /\ ~crashed
    /\ tasks[t].pc = "get_miss"
    /\ tasks' = [tasks EXCEPT ![t] =
           [@ EXCEPT !.sel = Strategy(groupFetcher),
                     !.pc = Entry(Strategy(groupFetcher))]]
    /\ UNCHANGED <<fetcher, groupFetcher, items, lock, now, pending, crashed, called, swaps>>

\* a variant of GetHit: an expired item is refreshed in the calling
\* goroutine before Get returns
GetHitSync(t) ==
    /\ ~crashed
    /\ tasks[t].pc = "get_hit"
    /\ LET me == tasks[t]
       IN tasks' = [tasks EXCEPT ![t] =
              IF After(now, me.expires)
              THEN [me EXCEPT !.nowRead = now, !.spawned = TRUE,
                              !.sel = Strategy(groupFetcher),
                              !.pc = Entry(Strategy(groupFetcher))]
              ELSE Returns([me EXCEPT !.nowRead = now], me.object)]
    /\ UNCHANGED <<fetcher, groupFetcher, items, lock, now, pending, crashed, called, swaps>>

\* lines 64-71: an item; when it has expired start a goroutine, then return the copy
GetHit(t) ==
    /\ ~crashed
    /\ tasks[t].pc = "get_hit"
    /\ LET me == tasks[t]
           out == Returns([me EXCEPT !.nowRead = now], me.object)
       IN IF After(now, me.expires)
          THEN LET sel == Strategy(groupFetcher)
               IN /\ pending' = pending (+) SetToBag(
                         {[id |-> me.id, sel |-> sel, after |-> me.after,
                           trig |-> IF sel = "group" THEN groupFetcher
                                                     ELSE fetcher]})
                  /\ tasks' = [tasks EXCEPT
                         ![t] = [out EXCEPT !.spawned = TRUE, !.sel = sel]]
          ELSE /\ tasks' = [tasks EXCEPT ![t] = out]
               /\ pending' = pending
    /\ UNCHANGED <<fetcher, groupFetcher, items, lock, now, crashed, called, swaps>>

\* one of the goroutines of `go cache.groupFetch(id)` / `go cache.Fetch(id)`
\* (lines 66, 68) starts to run, as the first background goroutine still free
Go(r) ==
    /\ ~crashed
    /\ tasks[r].pc = "free"
    /\ \A q \in Refreshers : Rank[q] < Rank[r] => tasks[q].pc # "free"
    /\ \E p \in BagToSet(pending) :
          /\ pending' = pending (-) SetToBag({p})
          /\ tasks' = [tasks EXCEPT ![r] =
                 [Idle(Entry(p.sel)) EXCEPT !.op = "refresh", !.id = p.id,
                                            !.sel = p.sel, !.after = p.after,
                                            !.trig = p.trig]]
    /\ UNCHANGED <<fetcher, groupFetcher, items, lock, now, crashed, called, swaps>>

\* ------------------------------------------------------------------ Fetch
\* a caller's Fetch(id): the exported method, called directly (line 86)
FetchCall(t, k) ==
    /\ ~crashed
    /\ tasks[t].pc = "idle"
    /\ called < MaxCalls
    /\ called + swaps.n < MaxOps
    /\ called' = called + 1
    /\ tasks' = [tasks EXCEPT ![t] =
           [Idle("f_call") EXCEPT !.op = "fetch", !.id = k]]
    /\ UNCHANGED <<fetcher, groupFetcher, items, lock, now, pending, crashed, swaps>>

\* line 87: cache.fetcher(id) is called (a nil func panics)
Fetch(t) ==
    /\ ~crashed
    /\ tasks[t].pc = "f_call"
    /\ IF fetcher = NoFn
       THEN /\ crashed' = TRUE
            /\ tasks' = [tasks EXCEPT ![t].pc = "panic"]
       ELSE /\ crashed' = crashed
            /\ tasks' = [tasks EXCEPT ![t] =
                   [@ EXCEPT !.pc = "f_in", !.fkey = tasks[t].id, !.fcalls = @ + 1,
                             !.ffn = fetcher]]
    /\ UNCHANGED <<fetcher, groupFetcher, items, lock, now, pending, called, swaps>>

\* a variant of FetchReturn: an error is stored as a nil object
FetchReturnErase(t, err, object) ==
    /\ ~crashed
    /\ tasks[t].pc = "f_in"
    /\ tasks' = [tasks EXCEPT ![t] =
           [@ EXCEPT !.pc = "set_lock", !.fout = IF err THEN "err" ELSE "ok",
                     !.fobj = object,
                     !.setk = tasks[t].id, !.setv = object, !.ctx = "fetch"]]
    /\ UNCHANGED <<fetcher, groupFetcher, items, lock, now, pending, crashed, called, swaps>>

\* a variant of FetchReturn: a nil object is returned without being stored
FetchReturnSkipNil(t, err, object) ==
    /\ ~crashed
    /\ tasks[t].pc = "f_in"
    /\ tasks' = [tasks EXCEPT ![t] =
           IF err
           THEN Returns([@ EXCEPT !.fout = "err"], Nil)
           ELSE IF object = Nil
                THEN Returns([@ EXCEPT !.fout = "ok", !.fobj = object], Nil)
                ELSE [@ EXCEPT !.pc = "set_lock", !.fout = "ok", !.fobj = object,
                               !.setk = tasks[t].id, !.setv = object,
                               !.ctx = "fetch"]]
    /\ UNCHANGED <<fetcher, groupFetcher, items, lock, now, pending, crashed, called, swaps>>

\* lines 87-91: the fetcher returns; an error returns (nil, false), a result
\* (nil included) goes to Set
FetchReturn(t, err, object) ==
    /\ ~crashed
    /\ tasks[t].pc = "f_in"
    /\ tasks' = [tasks EXCEPT ![t] =
           IF err
           THEN Returns([@ EXCEPT !.fout = "err"], Nil)
           ELSE [@ EXCEPT !.pc = "set_lock", !.fout = "ok", !.fobj = object,
                          !.setk = tasks[t].id, !.setv = object, !.ctx = "fetch"]]
    /\ UNCHANGED <<fetcher, groupFetcher, items, lock, now, pending, crashed, called, swaps>>

\* ------------------------------------------------------------- groupFetch
\* line 96: cache.groupFetcher() is called (a nil func panics)
groupFetch(t) ==
    /\ ~crashed
    /\ tasks[t].pc = "g_call"
    /\ IF groupFetcher = NoFn
       THEN /\ crashed' = TRUE
            /\ tasks' = [tasks EXCEPT ![t].pc = "panic"]
       ELSE /\ crashed' = crashed
            /\ tasks' = [tasks EXCEPT ![t] =
                   [@ EXCEPT !.pc = "g_in", !.gcalls = @ + 1,
                             !.gfn = groupFetcher]]
    /\ UNCHANGED <<fetcher, groupFetcher, items, lock, now, pending, called, swaps>>

\* a variant of GroupNext: only the requested key of the map is stored
GroupNextRequestedOnly(me) ==
    IF me.rem \cap {me.id} = {}
    THEN {Returns(me, me.res)}
    ELSE {[me EXCEPT !.pc = "set_lock", !.setk = k, !.setv = me.gmap[k],
                     !.ctx = "group", !.rem = @ \ {k}] : k \in me.rem \cap {me.id}}

\* the next iteration of `for k, v := range objects` (line 105) over the keys
\* not yet visited, in any order; after the last one, line 111
GroupNext(me) ==
    IF me.rem = {}
    THEN {Returns(me, me.res)}
    ELSE {[me EXCEPT !.pc = "set_lock", !.setk = k, !.setv = me.gmap[k],
                     !.ctx = "group", !.rem = @ \ {k}] : k \in me.rem}

\* a variant of groupFetchReturn: a failed group fetch returns (nil, false)
\* even when a single-key fetcher is set
groupFetchReturnNoFallback(t, gout, m) ==
    /\ ~crashed
    /\ tasks[t].pc = "g_in"
    /\ LET me == [tasks[t] EXCEPT !.gout = gout, !.hadF = (fetcher # NoFn)]
       IN IF GroupFailed(gout)
          THEN tasks' = [tasks EXCEPT ![t] = Returns(me, Nil)]
          ELSE \E nxt \in GroupNext([me EXCEPT !.gmap = m, !.rem = DOMAIN m]) :
                   tasks' = [tasks EXCEPT ![t] = nxt]
    /\ UNCHANGED <<fetcher, groupFetcher, items, lock, now, pending, crashed, called, swaps>>

\* a variant of groupFetchReturn: a failed group fetch with no single-key
\* fetcher stores nil for the requested key
groupFetchReturnErase(t, gout, m) ==
    /\ ~crashed
    /\ tasks[t].pc = "g_in"
    /\ LET me == [tasks[t] EXCEPT !.gout = gout, !.hadF = (fetcher # NoFn)]
       IN IF GroupFailed(gout)
          THEN tasks' = [tasks EXCEPT ![t] =
                   IF fetcher = NoFn
                   THEN [me EXCEPT !.pc = "set_lock", !.setk = me.id,
                                   !.setv = Nil, !.ctx = "user"]
                   ELSE [me EXCEPT !.pc = "f_call"]]
          ELSE \E nxt \in GroupNext([me EXCEPT !.gmap = m, !.rem = DOMAIN m]) :
                   tasks' = [tasks EXCEPT ![t] = nxt]
    /\ UNCHANGED <<fetcher, groupFetcher, items, lock, now, pending, crashed, called, swaps>>

\* lines 96-104: the group fetcher returns gout ("err", "nil" or "map") and m
groupFetchReturn(t, gout, m) ==
    /\ ~crashed
    /\ tasks[t].pc = "g_in"
    /\ LET me == [tasks[t] EXCEPT !.gout = gout, !.hadF = (fetcher # NoFn)]
       IN IF GroupFailed(gout)
          THEN tasks' = [tasks EXCEPT ![t] =
                   IF fetcher = NoFn
                   THEN Returns(me, Nil)
                   ELSE [me EXCEPT !.pc = "f_call"]]
          ELSE \E nxt \in GroupNext([me EXCEPT !.gmap = m, !.rem = DOMAIN m]) :
                   tasks' = [tasks EXCEPT ![t] = nxt]
    /\ UNCHANGED <<fetcher, groupFetcher, items, lock, now, pending, crashed, called, swaps>>

\* -------------------------------------------------------------------- Set
\* a caller's Set(id, object)
SetCall(t, k, v) ==
    /\ ~crashed
    /\ tasks[t].pc = "idle"
    /\ called < MaxCalls
    /\ called + swaps.n < MaxOps
    /\ called' = called + 1
    /\ tasks' = [tasks EXCEPT ![t] =
           [Idle("set_lock") EXCEPT !.op = "set", !.id = k,
                                    !.setk = k, !.setv = v, !.ctx = "user"]]
    /\ UNCHANGED <<fetcher, groupFetcher, items, lock, now, pending, crashed, swaps>>

\* a variant of SetLock: the lock is taken without waiting for its holders
SetLockNoWait(t) ==
    /\ ~crashed
    /\ tasks[t].pc = "set_lock"
    /\ lock' = [lock EXCEPT !.writer = t]
    /\ tasks' = [tasks EXCEPT ![t].pc = "set_write"]
    /\ UNCHANGED <<fetcher, groupFetcher, items, now, pending, crashed, called, swaps>>

\* line 75: cache.lock.Lock()
SetLock(t) ==
    /\ ~crashed
    /\ tasks[t].pc = "set_lock"
    /\ lock.writer = "none"
    /\ lock.readers = {}
    /\ lock' = [lock EXCEPT !.writer = t]
    /\ tasks' = [tasks EXCEPT ![t].pc = "set_write"]
    /\ UNCHANGED <<fetcher, groupFetcher, items, now, pending, crashed, called, swaps>>

\* where Set returns to: its caller, Fetch (line 92), or the range loop
\* (lines 107-109, then the next iteration)
AfterSet(me) ==
    CASE me.ctx = "user" -> {[me EXCEPT !.pc = "ret"]}
      [] me.ctx = "fetch" -> {Returns(me, me.fobj)}
      [] me.ctx = "group" ->
            GroupNext([me EXCEPT !.res = IF me.setk = me.id THEN me.setv ELSE @])

\* a variant of Set: an item that already holds the object keeps its expires
SetKeepExpiry(t) ==
    /\ ~crashed
    /\ tasks[t].pc = "set_write"
    /\ LET me == tasks[t]
       IN IF items[me.setk].present
          THEN /\ items' = [items EXCEPT ![me.setk].expires =
                      IF items[me.setk].object = me.setv THEN @ ELSE Add(now, TTL)]
               /\ tasks' = [tasks EXCEPT ![t] =
                      [me EXCEPT !.pc = "set_object",
                                 !.setexp = items'[me.setk].expires]]
               /\ lock' = lock
          ELSE /\ items' = [items EXCEPT ![me.setk] =
                      [present |-> TRUE, object |-> me.setv,
                       expires |-> Add(now, TTL)]]
               /\ \E nxt \in AfterSet([me EXCEPT !.wrote = @ + 1]) :
                      tasks' = [tasks EXCEPT ![t] = nxt]
               /\ lock' = [lock EXCEPT !.writer = "none"]
    /\ UNCHANGED <<fetcher, groupFetcher, now, pending, crashed, called, swaps>>

\* lines 77-79 and 82: an existing item gets its new expires (its object is
\* written next); a missing one is created whole, and the deferred Unlock runs
Set(t) ==
    /\ ~crashed
    /\ tasks[t].pc = "set_write"
    /\ LET me == tasks[t]
       IN IF items[me.setk].present
          THEN /\ items' = [items EXCEPT ![me.setk].expires = Add(now, TTL)]
               /\ tasks' = [tasks EXCEPT ![t] =
                      [me EXCEPT !.pc = "set_object", !.setexp = Add(now, TTL)]]
               /\ lock' = lock
          ELSE /\ items' = [items EXCEPT ![me.setk] =
                      [present |-> TRUE, object |-> me.setv,
                       expires |-> Add(now, TTL)]]
               /\ \E nxt \in AfterSet([me EXCEPT !.wrote = @ + 1]) :
                      tasks' = [tasks EXCEPT ![t] = nxt]
               /\ lock' = [lock EXCEPT !.writer = "none"]
    /\ UNCHANGED <<fetcher, groupFetcher, now, pending, crashed, called, swaps>>

\* line 80 and the deferred Unlock: the existing item gets its new object
SetObject(t) ==
    /\ ~crashed
    /\ tasks[t].pc = "set_object"
    /\ LET me == tasks[t]
       IN /\ items' = [items EXCEPT ![me.setk].object = me.setv]
          /\ \E nxt \in AfterSet([me EXCEPT !.wrote = @ + 1, !.setexp = 0]) :
                 tasks' = [tasks EXCEPT ![t] = nxt]
    /\ lock' = [lock EXCEPT !.writer = "none"]
    /\ UNCHANGED <<fetcher, groupFetcher, now, pending, crashed, called, swaps>>

\* -------------------------------------------------------------- SwapCache
\* a variant of SwapCache: the swap starts from an empty map
SwapCacheReset(t, f, g) ==
    /\ ~crashed
    /\ tasks[t].pc = "idle"
    /\ swaps.n < MaxSwaps
    /\ called + swaps.n < MaxOps
    /\ fetcher' = f
    /\ items' = [k \in Keys |-> NoItem]
    /\ tasks' = [tasks EXCEPT ![t] =
           [Idle("swap_g") EXCEPT !.op = "swap", !.swg = g]]
    /\ swaps' = [swaps EXCEPT !.n = @ + 1, !.ok = @ /\ ~(f = NoFn /\ g = NoFn)]
    /\ UNCHANGED <<groupFetcher, lock, now, pending, crashed, called>>

\* SwapCache(f, g), line 46: cache.fetcher = fetcher (no lock is taken).  The
\* arguments are not examined: either of them, or both, may be nil.
SwapCache(t, f, g) ==
    /\ ~crashed
    /\ tasks[t].pc = "idle"
    /\ swaps.n < MaxSwaps
    /\ called + swaps.n < MaxOps
    /\ fetcher' = f
    /\ tasks' = [tasks EXCEPT ![t] =
           [Idle("swap_g") EXCEPT !.op = "swap", !.swg = g]]
    /\ swaps' = [swaps EXCEPT !.n = @ + 1, !.ok = @ /\ ~(f = NoFn /\ g = NoFn)]
    /\ UNCHANGED <<groupFetcher, items, lock, now, pending, crashed, called>>

\* lines 47-48: cache.groupFetcher = groupFetcher; return cache.  The caller
\* may call SwapCache again.
SwapCacheGroup(t) ==
    /\ ~crashed
    /\ tasks[t].pc = "swap_g"
    /\ groupFetcher' = tasks[t].swg
    /\ tasks' = [tasks EXCEPT ![t] = Idle("idle")]
    /\ swaps' = [swaps EXCEPT !.done = TRUE]
    /\ UNCHANGED <<fetcher, items, lock, now, pending, crashed, called>>

\* ------------------------------------------------------------------- Next
Workers == Callers \cup Refreshers

Next ==
    \/ Tick
    \/ \E t \in Workers : Return(t)
    \/ \E t \in Callers, k \in Keys : Get(t, k)
    \/ \E t \in Callers : GetLookup(t)
    \/ \E t \in Callers : GetObject(t)
    \/ \E t \in Callers : GetMiss(t)
    \/ \E t \in Callers : GetHit(t)
    \/ \E r \in Refreshers : Go(r)
    \/ \E t \in Workers : Fetch(t)
    \/ \E t \in Workers, object \in Objects : FetchReturn(t, FALSE, object)
    \/ \E t \in Workers : FetchReturn(t, TRUE, Nil)
    \/ \E t \in Workers : groupFetch(t)
    \/ \E t \in Workers, m \in GroupMaps : groupFetchReturn(t, "map", m)
    \/ \E t \in Workers, gout \in {"err", "nil"} : groupFetchReturn(t, gout, EmptyMap)
    \/ \E t \in Callers, k \in Keys, v \in Values : SetCall(t, k, v)
    \/ \E t \in Callers, k \in Keys : FetchCall(t, k)
    \/ \E t \in Workers : SetLock(t)
    \/ \E t \in Workers : Set(t)
    \/ \E t \in Workers : SetObject(t)
    \/ \E t \in Swappers, f \in {NoFn, NewFn}, g \in {NoFn, NewFn} : SwapCache(t, f, g)
    \/ \E t \in Swappers : SwapCacheGroup(t)

Spec == Init /\ [][Next]_vars

\* The Go scheduler runs every runnable goroutine, and the fetch functions
\* return: a background goroutine takes its steps as long as it has one to take.
RefreshStep(r) ==
    \/ Go(r)
    \/ Fetch(r)
    \/ \E err \in BOOLEAN, object \in Objects : FetchReturn(r, err, object)
    \/ groupFetch(r)
    \/ \E gout \in {"err", "nil", "map"}, m \in GroupMaps : groupFetchReturn(r, gout, m)
    \/ SetLock(r)
    \/ Set(r)
    \/ SetObject(r)
    \/ Return(r)

FairSpec == Spec /\ \A r \in Refreshers : WF_vars(RefreshStep(r))

\* The same for a goroutine inside Get or Set: once called, it takes its steps.
CallStep(t) ==
    \/ GetLookup(t)
    \/ GetObject(t)
    \/ GetMiss(t)
    \/ GetHit(t)
    \/ Fetch(t)
    \/ \E err \in BOOLEAN, object \in Objects : FetchReturn(t, err, object)
    \/ groupFetch(t)
    \/ \E gout \in {"err", "nil", "map"}, m \in GroupMaps : groupFetchReturn(t, gout, m)
    \/ SetLock(t)
    \/ Set(t)
    \/ SetObject(t)
    \/ Return(t)

FairAllSpec == FairSpec /\ \A t \in Callers : WF_vars(CallStep(t))

\* ------------------------------------------------------------------ claims
Returned(t) == tasks[t].pc = "ret"
GetReturned(t) == Returned(t) /\ tasks[t].op = "get"
\* the Get found an item and, at line 64, found it expired / not expired
StaleGet(t) ==
    GetReturned(t) /\ tasks[t].exists /\ tasks[t].nowRead > tasks[t].expires
FreshGet(t) ==
    GetReturned(t) /\ tasks[t].exists /\ tasks[t].nowRead <= tasks[t].expires
MissGet(t) == GetReturned(t) /\ ~tasks[t].exists
Calls(t) == tasks[t].gcalls + tasks[t].fcalls
Result(value) == [value |-> value, found |-> (value # Nil)]
InSet(t) == tasks[t].pc \in {"set_lock", "set_write", "set_object"}
\* the step in which t's Set computes its expiry (line 79 or 82), and the one
\* in which it has written the item and unlocks
SetStamps(t) == tasks[t].pc = "set_write" /\ tasks'[t].pc # "set_write"
SetEnds(t) ==
    /\ tasks[t].pc \in {"set_write", "set_object"}
    /\ tasks'[t].pc \notin {"set_write", "set_object"}
\* the expiry that the Set which ends in this step computed
SetExpiry(t) ==
    IF tasks[t].pc = "set_write" THEN now + TTL ELSE tasks[t].setexp

\* C1: a Get that finds an expired item returns the object it copied at its
\* lookup, with found = (object # nil); its own goroutine calls no fetch
\* function and writes nothing, it starts the refresh in the background, and
\* once it has an item in hand its return never waits (it is always enabled).
\* As long as the call's results stand, whatever the refresh does, they are
\* these.
C1_StaleGetReturnsCopy ==
    \A t \in Callers :
        /\ StaleGet(t) =>
              /\ tasks[t].ret = Result(tasks[t].object)
              /\ Calls(t) = 0
              /\ tasks[t].wrote = 0
              /\ tasks[t].spawned
        /\ (~crashed /\ tasks[t].pc = "get_hit") => ENABLED GetHit(t)

\* C1 witness: a stale Get has returned a value while an earlier refresh of
\* the same key is inside its fetch function and the goroutine this Get
\* started has not run yet.
C1_Witness ==
    \E t \in Callers, r \in Refreshers :
        /\ StaleGet(t)
        /\ tasks[t].ret.found
        /\ tasks[r].pc \in {"g_in", "f_in"}
        /\ tasks[r].id = tasks[t].id
        /\ \E p \in BagToSet(pending) : p.id = tasks[t].id

\* C2 as claimed (its first half): the goroutine that a stale Get of a key
\* has started eventually calls a fetch function for that key.  (A run that
\* the caller ends itself, by a direct call of Fetch on a cache without a
\* single-key fetcher, or in which SwapCache was given no function at all, is
\* not counted against the claim.)
C2_RefreshEventuallyFetches ==
    \A k \in Keys :
        (\E p \in BagToSet(pending) : p.id = k)
            ~> \/ \E r \in Refreshers : tasks[r].id = k /\ Calls(r) > 0
               \/ \E t \in Callers : tasks[t].op = "fetch" /\ tasks[t].pc = "panic"
               \/ ~SwapConfigured

\* C3: a Get that finds an item with now <= expires returns the object it
\* copied, calls no fetch function, starts no goroutine and writes nothing.
C3_FreshGetNoFetch ==
    \A t \in Callers :
        FreshGet(t) =>
            /\ tasks[t].ret = Result(tasks[t].object)
            /\ Calls(t) = 0
            /\ ~tasks[t].spawned
            /\ tasks[t].wrote = 0

\* C3 witness: the boundary now = expires, on an item whose object is nil.
C3_Witness ==
    \E t \in Callers :
        /\ FreshGet(t)
        /\ tasks[t].nowRead = tasks[t].expires
        /\ tasks[t].object = Nil

\* what a call that went through the fetch functions returns, from what they
\* returned: the single fetch's object when it ran; else the group map's
\* value for the key; (nil, false) on an error and on a key the map lacks
FetchedResult(t) ==
    LET me == tasks[t]
    IN IF me.fcalls > 0
       THEN IF me.fout = "ok" THEN Result(me.fobj) ELSE Result(Nil)
       ELSE IF me.gout = "map" /\ me.id \in DOMAIN me.gmap
            THEN Result(me.gmap[me.id])
            ELSE Result(Nil)

\* C4 as claimed: a Get that finds no item makes exactly one fetch function
\* call and returns that call's result.
C4_Original ==
    \A t \in Callers :
        MissGet(t) => /\ Calls(t) = 1
                      /\ tasks[t].ret = FetchedResult(t)

\* C4 as amended: a Get that finds no item and returns has called, in its own
\* goroutine and before returning, the strategy its nil check chose exactly
\* once: the group fetcher, or the single-key fetcher when there is none.
\* After a group fetcher that returned an error or a nil map, with a
\* single-key fetcher set, it has also called that one exactly once (the
\* fallback).  It returns the result of the last call it made.  Until a
\* SwapCache begins, the chosen strategy is the group fetcher exactly when
\* the cache has one.
C4_MissGetFetchesOnce ==
    \A t \in Callers :
        MissGet(t) =>
            /\ tasks[t].sel \in {"group", "single"}
            /\ tasks[t].sel = "single" =>
                  tasks[t].gcalls = 0 /\ tasks[t].fcalls = 1
            /\ tasks[t].sel = "group" =>
                  /\ tasks[t].gcalls = 1
                  /\ tasks[t].fcalls =
                        IF tasks[t].gout \in {"err", "nil"} /\ tasks[t].hadF
                        THEN 1 ELSE 0
            /\ tasks[t].ret = FetchedResult(t)
            /\ ~tasks[t].spawned
            /\ NoSwap =>
                  tasks[t].sel = IF groupFetcher # NoFn THEN "group" ELSE "single"

\* C4 witness: a miss served by the fallback, two calls in all.
C4_Witness ==
    \E t \in Callers :
        /\ MissGet(t)
        /\ tasks[t].gcalls = 1
        /\ tasks[t].fcalls = 1
        /\ tasks[t].ret.found

\* C5: a call whose single-key fetch returned an error returns (nil, false)
\* at once and has written nothing to the map.
C5_FetchErrorWritesNothing ==
    \A t \in Workers :
        tasks[t].fout = "err" =>
            /\ Returned(t)
            /\ tasks[t].wrote = 0
            /\ tasks[t].ret = Result(Nil)

\* C5 witness: the refresh of a key failed and the key still holds its object.
C5_Witness ==
    \E r \in Refreshers :
        /\ Returned(r)
        /\ tasks[r].fout = "err"
        /\ items[tasks[r].id].present
        /\ items[tasks[r].id].object # Nil

\* C6: a single-key fetch that succeeds with nil is stored like any other: the
\* call writes the key once, the write leaves the item with object nil and
\* expires = now + ttl (whatever it held), and the call returns (nil, false);
\* a Get that copies a nil object returns (nil, false).
C6_NilIsStoredInv ==
    /\ \A t \in Workers :
          (Returned(t) /\ tasks[t].fout = "ok" /\ tasks[t].fobj = Nil) =>
              /\ tasks[t].wrote = 1
              /\ tasks[t].ret = [value |-> Nil, found |-> FALSE]
    /\ \A t \in Callers :
          (GetReturned(t) /\ tasks[t].exists /\ tasks[t].object = Nil) =>
              tasks[t].ret = [value |-> Nil, found |-> FALSE]

C6_NilIsStoredStep ==
    \A t \in Workers :
        /\ (tasks[t].fout = "ok" /\ SetStamps(t)) =>
               items'[tasks[t].id].expires = now + TTL
        /\ (tasks[t].fout = "ok" /\ tasks[t].pc # "ret" /\ tasks'[t].pc = "ret") =>
               items'[tasks[t].id] =
                   [present |-> TRUE, object |-> tasks[t].fobj,
                    expires |-> SetExpiry(t)]

C6_NilIsStored == []C6_NilIsStoredInv /\ [][C6_NilIsStoredStep]_vars

\* C6 witness: a refresh of a key fetched nil while a Get that had returned
\* the key's non-nil object still stands; the key now holds nil.
C6_Witness ==
    \E t \in Callers, r \in Refreshers :
        /\ StaleGet(t)
        /\ tasks[t].ret.found
        /\ Returned(r)
        /\ tasks[r].id = tasks[t].id
        /\ tasks[r].fout = "ok"
        /\ tasks[r].fobj = Nil
        /\ items[tasks[r].id].object = Nil

\* C7: a group fetch that returns a non-empty map is one call of the group
\* fetcher and none of the single-key fetcher; it writes each key of the map
\* once, each write leaving the item with the map's object and expires = now +
\* ttl, and returns the map's value for the requested key (nil, false when
\* the map lacks it).  A later Get copies what the item then holds, and while
\* now <= expires it returns the copy and calls no fetch function.
C7_GroupStoresAllInv ==
    /\ \A t \in Workers :
          (tasks[t].gout = "map" /\ DOMAIN tasks[t].gmap # {}) =>
              /\ tasks[t].gcalls = 1
              /\ tasks[t].fcalls = 0
              /\ tasks[t].wrote + Cardinality(tasks[t].rem)
                    + (IF InSet(t) THEN 1 ELSE 0)
                    = Cardinality(DOMAIN tasks[t].gmap)
              /\ Returned(t) =>
                    /\ tasks[t].wrote = Cardinality(DOMAIN tasks[t].gmap)
                    /\ tasks[t].ret = FetchedResult(t)
    /\ \A t \in Callers :
          (GetReturned(t) /\ tasks[t].exists
              /\ tasks[t].nowRead <= tasks[t].expires) =>
              tasks[t].ret = Result(tasks[t].object) /\ Calls(t) = 0

C7_GroupStoresAllStep ==
    \A t \in Workers :
        /\ (tasks[t].gout = "map" /\ SetStamps(t)) =>
               items'[tasks[t].setk].expires = now + TTL
        /\ (tasks[t].gout = "map" /\ SetEnds(t)) =>
               /\ tasks[t].setk \in DOMAIN tasks[t].gmap
               /\ tasks[t].setk \notin tasks[t].rem
               /\ items'[tasks[t].setk] =
                     [present |-> TRUE, object |-> tasks[t].gmap[tasks[t].setk],
                      expires |-> SetExpiry(t)]
        /\ (tasks[t].pc = "get_object" /\ tasks'[t].pc = "get_hit") =>
               /\ tasks'[t].object = items[tasks[t].id].object
               /\ tasks'[t].expires = items[tasks[t].id].expires

C7_GroupStoresAll == []C7_GroupStoresAllInv /\ [][C7_GroupStoresAllStep]_vars

\* C7 witness: a Get that found no item returned after one group call whose
\* map had both keys; both are stored.
C7_Witness ==
    \E t \in Callers :
        /\ MissGet(t)
        /\ tasks[t].gout = "map"
        /\ DOMAIN tasks[t].gmap = Keys
        /\ tasks[t].wrote = 2
        /\ tasks[t].ret.found
        /\ \A k \in Keys : items[k].present

\* C8: after a group fetcher that returned an error or a nil map, with a
\* single-key fetcher set, the call invokes the single-key fetcher exactly
\* once, for the requested key; on success it writes that key once, with the
\* fetched object, and returns it; on an error it writes nothing and returns
\* (nil, false).
C8_FallbackOnce ==
    \A t \in Workers :
        (tasks[t].gout \in {"err", "nil"} /\ tasks[t].hadF) =>
            /\ tasks[t].fcalls <= 1
            /\ tasks[t].gcalls = 1
            /\ tasks[t].fcalls = 1 => tasks[t].fkey = tasks[t].id
            /\ InSet(t) =>
                  /\ tasks[t].setk = tasks[t].id
                  /\ tasks[t].setv = tasks[t].fobj
                  /\ tasks[t].fout = "ok"
            /\ Returned(t) =>
                  /\ tasks[t].fcalls = 1
                  /\ tasks[t].fout = "ok" =>
                        tasks[t].wrote = 1 /\ tasks[t].ret = Result(tasks[t].fobj)
                  /\ tasks[t].fout # "ok" =>
                        tasks[t].wrote = 0 /\ tasks[t].ret = Result(Nil)

\* C8 witness: a nil group map, then the single fetch's object stored and returned.
C8_Witness ==
    \E t \in Callers :
        /\ MissGet(t)
        /\ tasks[t].gout = "nil"
        /\ tasks[t].hadF
        /\ tasks[t].fout = "ok"
        /\ tasks[t].ret.found
        /\ items[tasks[t].id].object = tasks[t].ret.value

\* C9 as claimed: after a group fetcher that returned an empty, non-nil map,
\* with a single-key fetcher set, the call has invoked the single-key fetcher
\* by the time it returns.
C9_EmptyMapFallsBack ==
    \A t \in Workers :
        (Returned(t) /\ tasks[t].gout = "map" /\ DOMAIN tasks[t].gmap = {}
            /\ tasks[t].hadF) =>
            tasks[t].fcalls = 1

\* C10: after a group fetcher that returned an error or a nil map, with no
\* single-key fetcher set, the call writes nothing, calls nothing else and
\* returns (nil, false).
C10_NoFallbackWritesNothing ==
    \A t \in Workers :
        (tasks[t].gout \in {"err", "nil"} /\ ~tasks[t].hadF) =>
            /\ Returned(t)
            /\ tasks[t].wrote = 0
            /\ tasks[t].fcalls = 0
            /\ tasks[t].ret = Result(Nil)

\* C10 witness: the refresh of a key ended so, and the key still holds the
\* object its Get returned.
C10_Witness ==
    \E t \in Callers, r \in Refreshers :
        /\ StaleGet(t)
        /\ tasks[t].ret.found
        /\ Returned(r)
        /\ tasks[r].id = tasks[t].id
        /\ tasks[r].gout \in {"err", "nil"}
        /\ ~tasks[r].hadF
        /\ items[tasks[r].id].present
        /\ items[tasks[r].id].object = tasks[t].ret.value

\* C11: SwapCache writes the two strategy fields and nothing else: each of its
\* steps leaves every item (presence, object, expires), the lock, the clock
\* and every other goroutine as they were.  A Get that begins after the swap
\* has returned and finds an item with now <= expires returns the object it
\* copied and calls no fetch function, old or new, and starts no goroutine.
C11_SwapKeepsItemsInv ==
    \A t \in Callers :
        (FreshGet(t) /\ tasks[t].after) =>
            /\ tasks[t].ret = Result(tasks[t].object)
            /\ Calls(t) = 0
            /\ tasks[t].gfn = NoFn /\ tasks[t].ffn = NoFn
            /\ ~tasks[t].spawned

C11_SwapKeepsItemsStep ==
    \A s \in Swappers :
        tasks'[s] # tasks[s] =>
            /\ items' = items
            /\ lock' = lock
            /\ now' = now
            /\ pending' = pending
            /\ \A t \in Workers : tasks'[t] = tasks[t]

C11_SwapKeepsItems == []C11_SwapKeepsItemsInv /\ [][C11_SwapKeepsItemsStep]_vars

\* C11 witness: the swap has returned with a new pair of functions; a Get that
\* began after it found the item of its key still fresh, written at an earlier
\* time, and returned its object.
C11_Witness ==
    \E t \in Callers :
        /\ FreshGet(t)
        /\ tasks[t].after
        /\ fetcher = NewFn /\ groupFetcher = NewFn
        /\ tasks[t].ret.found
        /\ tasks[t].expires < tasks[t].nowRead + TTL
        /\ items[tasks[t].id].expires = tasks[t].expires

\* the functions a call that began after a swap may invoke: those a swap
\* installed, never those of New / NewGroup; and it does not call a nil func
CallsNewOnly(t) ==
    /\ tasks[t].gfn # OldFn
    /\ tasks[t].ffn # OldFn
    /\ tasks[t].pc # "panic"

\* t has returned from a fetch that its nil check sent to strategy sel: the
\* Get of a missing key, or the background goroutine of an expired one
FetchedBy(t, sel) ==
    Returned(t) /\ ~tasks[t].spawned /\ tasks[t].sel = sel

\* C12 as claimed, read in its favour: a fetch triggered by a Get that began
\* after a SwapCache returned (every SwapCache being given at least one
\* function) invokes functions that a swap installed and no other; sent to
\* the group strategy it invokes the new group fetcher, and the new
\* single-key fetcher at most as the fallback of line 101 (counted here as
\* part of the group strategy, although the claim says "and not the
\* single-key fetcher"); sent to the single-key strategy it invokes the new
\* single-key fetcher and no group fetcher.
C12_AfterSwapUsesNew ==
    \A t \in Workers :
        (tasks[t].after /\ SwapConfigured) =>
            /\ CallsNewOnly(t)
            /\ FetchedBy(t, "group") =>
                  /\ tasks[t].gfn = NewFn
                  /\ tasks[t].gcalls = 1
                  /\ tasks[t].fcalls =
                        IF GroupFailed(tasks[t].gout) /\ tasks[t].hadF THEN 1 ELSE 0
                  /\ tasks[t].fcalls = 1 => tasks[t].ffn = NewFn
            /\ FetchedBy(t, "single") =>
                  /\ tasks[t].ffn = NewFn
                  /\ tasks[t].fcalls = 1
                  /\ tasks[t].gcalls = 0

\* C13 as claimed: the functions one Get or one refresh invokes belong to one
\* pair, the one before the swap or the one after it: a call that invoked the
\* group fetcher of New / NewGroup does not invoke the single-key fetcher that
\* SwapCache installed.
C13_SwapAtomic ==
    \A t \in Workers :
        ~(tasks[t].gfn = OldFn /\ tasks[t].ffn = NewFn)

\* C14 as claimed: a background goroutine invokes the function that the
\* strategy chosen by its Get named when the `go` statement ran, whatever
\* SwapCache does between the `go` statement and the call.
C14_RefreshKeepsStrategy ==
    \A r \in Refreshers :
        /\ (tasks[r].sel = "group" /\ tasks[r].gcalls > 0) =>
              tasks[r].gfn = tasks[r].trig
        /\ (tasks[r].sel = "single" /\ tasks[r].fcalls > 0) =>
              tasks[r].ffn = tasks[r].trig

InFetch(t) == tasks[t].pc \in {"f_in", "g_in"}
HoldsLock(t) == lock.writer = t \/ t \in lock.readers

\* C15: no goroutine is about to call or inside a fetch function while it
\* holds the lock, for reading or for writing.  So while some goroutine is
\* inside a fetch function that has not returned, whatever goroutines wait to
\* run: a goroutine that holds the write lock can take its next step; with no
\* writer a Get can begin, for any key; and a Get that has begun and found an
\* item can take each of its steps up to its return.
C15_NoLockInFetch ==
    /\ \A t \in Workers :
          tasks[t].pc \in {"get_miss", "f_call", "f_in", "g_call", "g_in"} =>
              ~HoldsLock(t)
    /\ (~crashed /\ \E r \in Workers : InFetch(r)) =>
          /\ \A w \in Workers :
                lock.writer = w => ENABLED Set(w) \/ ENABLED SetObject(w)
          /\ \A t \in Callers :
                /\ (tasks[t].pc = "idle" /\ called < MaxCalls
                       /\ called + swaps.n < MaxOps
                       /\ lock.writer = "none") =>
                      \A k \in Keys : ENABLED Get(t, k)
                /\ tasks[t].pc = "get_lookup" => ENABLED GetLookup(t)
                /\ tasks[t].pc = "get_object" => ENABLED GetObject(t)
                /\ tasks[t].pc = "get_hit" => ENABLED GetHit(t)

\* C15 witness: two background goroutines are inside the fetch function for
\* the same key; the lock is free, and the Get of that key that started the
\* second of them has returned the item's object.
C15_Witness ==
    \E t \in Callers, r \in Refreshers, q \in Refreshers :
        /\ r # q
        /\ InFetch(r) /\ InFetch(q)
        /\ tasks[q].id = tasks[r].id
        /\ lock = [writer |-> "none", readers |-> {}]
        /\ StaleGet(t)
        /\ tasks[t].id = tasks[r].id
        /\ tasks[t].ret.found

\* C16: Set cannot fail: once it holds the lock each of its steps is enabled.
\* The step that computes the expiry (line 79 or 82) writes now + ttl, also
\* over an item that already holds the object; when Set unlocks, the item of
\* its key holds exactly its object and that expiry; no step of Set touches
\* another key, and no step of anything else changes the map.  So every item
\* holds (the time of a write) + ttl, a time that is not in the future.
C16_SetStoresInv ==
    /\ \A t \in Workers :
          /\ (~crashed /\ tasks[t].pc = "set_write") => ENABLED Set(t)
          /\ (~crashed /\ tasks[t].pc = "set_object") => ENABLED SetObject(t)
          /\ (Returned(t) /\ tasks[t].op = "set") => tasks[t].wrote = 1
    /\ \A k \in Keys :
          items[k].present =>
              /\ items[k].expires >= TTL
              /\ items[k].expires <= now + TTL

C16_SetStoresStep ==
    /\ \A t \in Workers :
          /\ SetStamps(t) =>
                /\ items'[tasks[t].setk].present
                /\ items'[tasks[t].setk].expires = now + TTL
          /\ SetEnds(t) =>
                items'[tasks[t].setk] =
                    [present |-> TRUE, object |-> tasks[t].setv,
                     expires |-> SetExpiry(t)]
          /\ tasks'[t] # tasks[t] =>
                \A k \in Keys \ {tasks[t].setk} : items'[k] = items[k]
    /\ items' # items =>
          \E t \in Workers :
              /\ tasks[t].pc \in {"set_write", "set_object"}
              /\ tasks'[t] # tasks[t]

C16_SetStores == []C16_SetStoresInv /\ [][C16_SetStoresStep]_vars

\* C16 witness: a caller's Set has returned at the last instant of the clock;
\* its key holds its object and now + ttl, and the other key holds the older
\* expiry of its own write.
C16_Witness ==
    \E t \in Callers :
        /\ Returned(t)
        /\ tasks[t].op = "set"
        /\ now = MaxTime
        /\ items[tasks[t].setk] =
               [present |-> TRUE, object |-> tasks[t].setv, expires |-> now + TTL]
        /\ \E k \in Keys \ {tasks[t].setk} :
               items[k].present /\ items[k].expires < now + TTL

\* C17 as claimed, for the fetches a Get triggers (the Get of a missing key,
\* the background goroutine of an expired one): the single-key fetcher is
\* invoked (line 87) only while no group fetcher is configured, or as the
\* fallback after the group fetcher returned an error or a nil map; and after
\* a group fetch returned a non-empty map no single-key fetcher is invoked.
C17_GroupPriorityInv ==
    \A t \in Workers :
        (/\ tasks[t].op \in {"get", "refresh"}
         /\ tasks[t].gout = "map"
         /\ DOMAIN tasks[t].gmap # {}) =>
            tasks[t].fcalls = 0 /\ tasks[t].pc # "f_call"

C17_GroupPriorityStep ==
    \A t \in Workers :
        (/\ tasks[t].op \in {"get", "refresh"}
         /\ tasks[t].pc = "f_call"
         /\ tasks'[t].pc = "f_in") =>
            \/ groupFetcher = NoFn
            \/ tasks[t].sel = "group" /\ GroupFailed(tasks[t].gout)

C17_GroupPriority == []C17_GroupPriorityInv /\ [][C17_GroupPriorityStep]_vars

\* C18 as claimed: when a call returns from a fetch that succeeded for its
\* key (a single-key fetch without error, nil included, or a group fetch with
\* a non-empty map, with or without the key), the key has an item.
C18_FetchedKeyHasItem ==
    \A t \in Workers :
        (Returned(t) /\ (tasks[t].fout = "ok"
                            \/ (tasks[t].gout = "map" /\ DOMAIN tasks[t].gmap # {}))) =>
            items[tasks[t].id].present

\* C19: the lock is held by one writer or by readers, never both; the map is
\* read and written only under it.  So between the two field reads of a Get
\* (lines 61, 62) the item does not change and no write of it is half done:
\* the pair a Get copies is the pair one Set wrote.  Between the two field
\* writes of a Set (lines 79, 80) nobody else writes: when a Set unlocks, the
\* item holds its object and its expiry, whatever the Sets before it wrote;
\* the map changes only in a step of the goroutine that holds the write lock.
C19_WritesSerializedInv ==
    /\ lock.writer # "none" => lock.readers = {}
    /\ \A t \in Workers :
          /\ tasks[t].pc \in {"set_write", "set_object"} <=> lock.writer = t
          /\ tasks[t].pc \in {"get_lookup", "get_object"} <=> t \in lock.readers
          /\ tasks[t].pc = "get_object" =>
                /\ items[tasks[t].id].present
                /\ items[tasks[t].id].expires = tasks[t].expires
          /\ tasks[t].pc = "set_object" =>
                /\ items[tasks[t].setk].present
                /\ items[tasks[t].setk].expires = tasks[t].setexp

C19_WritesSerializedStep ==
    /\ \A t \in Workers :
          /\ (tasks[t].pc = "get_object" /\ tasks'[t].pc = "get_hit") =>
                /\ lock.writer = "none"
                /\ tasks'[t].object = items[tasks[t].id].object
                /\ tasks'[t].expires = items[tasks[t].id].expires
          /\ SetEnds(t) =>
                /\ lock.writer = t
                /\ lock'.writer = "none"
                /\ items'[tasks[t].setk].object = tasks[t].setv
                /\ items'[tasks[t].setk].expires = SetExpiry(t)
    /\ items' # items =>
          /\ lock.writer \in Workers
          /\ tasks'[lock.writer] # tasks[lock.writer]
          /\ \A k \in Keys \ {tasks[lock.writer].setk} : items'[k] = items[k]

C19_WritesSerialized ==
    []C19_WritesSerializedInv /\ [][C19_WritesSerializedStep]_vars

\* C19 witness: a background goroutine is about to write the second field of
\* an item (it wrote a new expires, the old object is still there) while the
\* caller, which called Set for the same key, waits for the lock.
C19_Witness ==
    \E t \in Callers, r \in Refreshers :
        /\ tasks[r].pc = "set_object"
        /\ tasks[t].pc = "set_lock"
        /\ tasks[t].setk = tasks[r].setk
        /\ items[tasks[r].setk].object # tasks[r].setv
        /\ tasks[t].setv # tasks[r].setv

\* C20 as claimed (its first part): under fair scheduling, with fetch
\* functions that return, every Get that was called returns.  (A run in
\* which SwapCache was given no function at all is not counted against the
\* claim.)
C20_EveryGetReturns ==
    \A t \in Callers :
        (tasks[t].op = "get" /\ ~Returned(t)) ~> (Returned(t) \/ ~SwapConfigured)

\* C21 as claimed: on a cache built with at least one function and swapped
\* only to pairs with at least one function, no goroutine ever calls a nil
\* Fetcher (line 87) or a nil GroupFetcher (line 96), in any interleaving of
\* Get, the background goroutines and SwapCache.  (A direct call of Fetch on
\* a cache without a single-key fetcher is outside the claim, and is not
\* counted here.)
C21_NeverCallsNil ==
    SwapConfigured =>
        \A t \in Workers :
            tasks[t].op \in {"get", "refresh"} => tasks[t].pc # "panic"

====
